---- MODULE Spec2Model ----
(***************************************************************************)
(* Model of the even/odd parity game of src/src/App.tsx: the challenge     *)
(* generator, the expression evaluator and the round state machine of the  *)
(* EvenOddGame component, together with the two timers the component       *)
(* starts (the 1000 ms setInterval of the timer effect and the 2000 ms     *)
(* setTimeout of a wrong guess).                                           *)
(*                                                                         *)
(* Time is discrete: one time unit is 1000 ms and is cut into Slices       *)
(* slices.  Handlers run atomically (single-threaded event loop).  A timer *)
(* callback runs at the beginning of the slice in which its delay has      *)
(* elapsed; the user's events of a slice (a guess, "Play Again") come      *)
(* after the callbacks that are due in it, in any number and order.        *)
(***************************************************************************)
EXTENDS Integers, Sequences, FiniteSets, TLC

(* ------------------------------ bounds --------------------------------- *)

\* randomInt0to9 is explored on the digits 0..MaxDigit only
MaxDigit == 1

\* slices per time unit (granularity of the clock)
Slices == 1

\* a correct guess is explored only while the score stays within the cap
MaxScore == 2

\* the mid-round specification starts after MidCombo correct guesses in a row,
\* with MidTimeLeft seconds left, and lets the score grow by MidHeadroom
MidCombo == 9

MidTimeLeft == 3

MidHeadroom == 2

(* ------------------------- program constants --------------------------- *)

RoundLength == 60

QueueLength == 5

\* setInterval(..., 1000): one time unit
TickUnits == 1

\* setTimeout(..., 2000): two time units
LockUnits == 2

TickPeriod == TickUnits * Slices

LockDelay == LockUnits * Slices

(* ------------------------------ helpers -------------------------------- *)

\* Math.floor(Math.random() * 10): the set of values a call may return
randomInt0to9 == 0..MaxDigit

\* JavaScript's remainder: truncated, the sign follows the dividend (b > 0)
jsRem(a, b) == IF a >= 0 THEN a % b ELSE 0 - ((0 - a) % b)

\* safeDivide with Math.trunc in the place of Math.floor
safeDivideTrunc(a, b) ==
  IF b = 0 THEN 0
  ELSE IF a >= 0 THEN a \div b ELSE 0 - ((0 - a) \div b)

safeDivide(a, b) == IF b = 0 THEN 0 ELSE a \div b

\* getUnlockedOperators with each set unlocked one threshold early
getUnlockedOperatorsEarly(c) ==
  IF c >= 20 THEN <<"+", "-", "*", "/", "%">>
  ELSE IF c >= 10 THEN <<"+", "-", "*">>
  ELSE <<"+", "-">>

getUnlockedOperators(c) ==
  IF c >= 30 THEN <<"+", "-", "*", "/", "%">>
  ELSE IF c >= 20 THEN <<"+", "-", "*">>
  ELSE IF c >= 10 THEN <<"+", "-">>
  ELSE <<>>

\* getScoreGain with the tiers counted from 0
getScoreGainFromZero(c) ==
  IF c >= 40 THEN 4
  ELSE IF c >= 30 THEN 3
  ELSE IF c >= 20 THEN 2
  ELSE IF c >= 10 THEN 1
  ELSE 0

\* getScoreGain with > in the place of >=
getScoreGainStrict(c) ==
  IF c > 40 THEN 5
  ELSE IF c > 30 THEN 4
  ELSE IF c > 20 THEN 3
  ELSE IF c > 10 THEN 2
  ELSE 1

getScoreGain(c) ==
  IF c >= 40 THEN 5
  ELSE IF c >= 30 THEN 4
  ELSE IF c >= 20 THEN 3
  ELSE IF c >= 10 THEN 2
  ELSE 1

\* generateExpression with the third term starting one combo late
generateExpressionLate(c) ==
  LET operators == getUnlockedOperators(c)
      termCount == IF c > 40 THEN 3 ELSE 2
  IN  { [type |-> "expression", terms |-> ts, operators |-> ops] :
          ts \in [1..termCount -> randomInt0to9],
          ops \in [1..(termCount - 1) ->
                     {operators[k] : k \in 1..Len(operators)}] }

\* the set of expressions one call of generateExpression(c) may return
generateExpression(c) ==
  LET operators == getUnlockedOperators(c)
      termCount == IF c >= 40 THEN 3 ELSE 2
  IN  { [type |-> "expression", terms |-> ts, operators |-> ops] :
          ts \in [1..termCount -> randomInt0to9],
          ops \in [1..(termCount - 1) ->
                     {operators[k] : k \in 1..Len(operators)}] }

NumberChallenges == { [type |-> "number", value |-> d] : d \in randomInt0to9 }

\* the set of challenges one call of generateChallenge(c) may return
generateChallenge(c) ==
  IF c < 10 THEN NumberChallenges
  ELSE NumberChallenges \cup generateExpression(c)

\* one step of the fold of evaluateExpression
applyOperator(op, result, next) ==
  CASE op = "+" -> result + next
    [] op = "-" -> result - next
    [] op = "*" -> result * next
    [] op = "/" -> safeDivide(result, next)
    [] op = "%" -> IF next = 0 THEN 0 ELSE jsRem(result, next)

RECURSIVE foldOperators(_, _, _)
foldOperators(expr, i, result) ==
  IF i > Len(expr.operators) THEN result
  ELSE foldOperators(expr, i + 1,
                     applyOperator(expr.operators[i], result, expr.terms[i + 1]))

evaluateExpression(expr) == foldOperators(expr, 1, expr.terms[1])

isChallengeEven(challenge) ==
  IF challenge.type = "number" THEN jsRem(challenge.value, 2) = 0
  ELSE jsRem(evaluateExpression(challenge), 2) = 0

\* the set of queues one call of generateQueue(length, c) may return
generateQueue(length, c) == [1..length -> generateChallenge(c)]

advanceQueueNoDrop(q, newCombo) ==
  { q \o <<ch>> : ch \in generateChallenge(newCombo) }

\* the set of queues advanceQueue(newCombo) may turn q into
advanceQueue(q, newCombo) ==
  { Tail(q) \o <<ch>> : ch \in generateChallenge(newCombo) }

feedbackText(gain) == "+" \o ToString(gain)

(* ------------------------------- state --------------------------------- *)

VARIABLES
  queue,       \* useState<Challenge[]>
  score,       \* useState(0)
  combo,       \* useState(0)
  timeLeft,    \* useState(60)
  status,      \* "playing" | "ended"
  feedback,    \* string, or "null"
  isLocked,    \* useState(false)
  tickIn,      \* slices until the interval callback runs (0 while no interval)
  lockTimers,  \* remaining slices of the pending setTimeout callbacks, oldest first
  outcome,     \* history: how the handler of the last step left: "ignored",
               \* "correct", "wrong" for handleGuess, "none" for the others
  staleTimers, \* history: pending timeouts that were started before the last reset
  ticks        \* history: interval callbacks run since the last reset

gameVars == <<queue, score, combo, timeLeft, status, feedback, isLocked>>

vars == <<queue, score, combo, timeLeft, status, feedback, isLocked,
          tickIn, lockTimers, outcome, staleTimers, ticks>>

Guesses == {"even", "odd"}

Init ==
  /\ queue \in generateQueue(QueueLength, 0)
  /\ score = 0
  /\ combo = 0
  /\ timeLeft = RoundLength
  /\ status = "ended"
  /\ feedback = "null"
  /\ isLocked = FALSE
  /\ tickIn = 0
  /\ lockTimers = <<>>
  /\ outcome = "none"
  /\ staleTimers = 0
  /\ ticks = 0

(* ------------------------------ actions -------------------------------- *)

\* resetGame without setTimeLeft(60)
resetGameKeepsTime ==
  /\ status = "ended"
  /\ score' = 0
  /\ combo' = 0
  /\ timeLeft' = timeLeft
  /\ status' = "playing"
  /\ feedback' = "null"
  /\ isLocked' = FALSE
  /\ queue' \in generateQueue(QueueLength, 0)
  /\ tickIn' = TickPeriod
  /\ outcome' = "none"
  /\ staleTimers' = Len(lockTimers)
  /\ ticks' = 0
  /\ UNCHANGED lockTimers

resetGameKeepsLock ==
  /\ status = "ended"
  /\ score' = 0
  /\ combo' = 0
  /\ timeLeft' = RoundLength
  /\ status' = "playing"
  /\ feedback' = "null"
  /\ queue' \in generateQueue(QueueLength, 0)
  /\ tickIn' = TickPeriod
  /\ outcome' = "none"
  /\ staleTimers' = Len(lockTimers)
  /\ ticks' = 0
  /\ UNCHANGED <<isLocked, lockTimers>>

\* the "Play Again" button, rendered only while status is "ended"; the new
\* status re-runs the timer effect, which starts the interval
resetGame ==
  /\ status = "ended"
  /\ score' = 0
  /\ combo' = 0
  /\ timeLeft' = RoundLength
  /\ status' = "playing"
  /\ feedback' = "null"
  /\ isLocked' = FALSE
  /\ queue' \in generateQueue(QueueLength, 0)
  /\ tickIn' = TickPeriod
  /\ outcome' = "none"
  /\ staleTimers' = Len(lockTimers)
  /\ ticks' = 0
  /\ UNCHANGED lockTimers

intervalTickLate ==
  /\ status = "playing"
  /\ tickIn = 0
  /\ IF timeLeft <= 0
       THEN /\ timeLeft' = 0
            /\ status' = "ended"
            /\ tickIn' = 0
       ELSE /\ timeLeft' = timeLeft - 1
            /\ tickIn' = TickPeriod
            /\ UNCHANGED status
  /\ outcome' = "none"
  /\ ticks' = ticks + 1
  /\ UNCHANGED <<queue, score, combo, feedback, isLocked, lockTimers, staleTimers>>

\* the callback of the timer effect's setInterval
intervalTick ==
  /\ status = "playing"
  /\ tickIn = 0
  /\ IF timeLeft <= 1
       THEN /\ timeLeft' = 0
            /\ status' = "ended"
            /\ tickIn' = 0
       ELSE /\ timeLeft' = timeLeft - 1
            /\ tickIn' = TickPeriod
            /\ UNCHANGED status
  /\ outcome' = "none"
  /\ ticks' = ticks + 1
  /\ UNCHANGED <<queue, score, combo, feedback, isLocked, lockTimers, staleTimers>>

guessIgnoredNoLock == status # "playing"

\* the early return of handleGuess
guessIgnored == status # "playing" \/ isLocked

\* the constant `correct` of handleGuess
guessCorrect(guess) ==
  LET current == Head(queue)
  IN  \/ (guess = "even" /\ isChallengeEven(current))
      \/ (guess = "odd" /\ ~isChallengeEven(current))

onCorrectOldCombo(scoreCap) ==
  LET nextCombo == combo + 1
      scoreGain == getScoreGain(combo)
  IN  /\ score + scoreGain <= scoreCap
      /\ score' = score + scoreGain
      /\ combo' = nextCombo
      /\ feedback' = feedbackText(scoreGain)
      /\ queue' \in advanceQueue(queue, nextCombo)
      /\ outcome' = "correct"
      /\ UNCHANGED <<timeLeft, status, isLocked, tickIn, lockTimers,
                     staleTimers, ticks>>

\* the branch of handleGuess taken on a correct guess
onCorrect(scoreCap) ==
  LET nextCombo == combo + 1
      scoreGain == getScoreGain(nextCombo)
  IN  /\ score + scoreGain <= scoreCap
      /\ score' = score + scoreGain
      /\ combo' = nextCombo
      /\ feedback' = feedbackText(scoreGain)
      /\ queue' \in advanceQueue(queue, nextCombo)
      /\ outcome' = "correct"
      /\ UNCHANGED <<timeLeft, status, isLocked, tickIn, lockTimers,
                     staleTimers, ticks>>

\* onWrong without setCombo(0)
onWrongKeepsCombo ==
  /\ feedback' = "Wrong!"
  /\ isLocked' = TRUE
  /\ lockTimers' = Append(lockTimers, LockDelay)
  /\ outcome' = "wrong"
  /\ UNCHANGED <<queue, score, combo, timeLeft, status, tickIn, staleTimers, ticks>>

onWrongAdvances ==
  /\ feedback' = "Wrong!"
  /\ combo' = 0
  /\ isLocked' = TRUE
  /\ queue' \in advanceQueue(queue, 0)
  /\ lockTimers' = Append(lockTimers, LockDelay)
  /\ outcome' = "wrong"
  /\ UNCHANGED <<score, timeLeft, status, tickIn, staleTimers, ticks>>

\* the branch of handleGuess taken on a wrong guess
onWrong ==
  /\ feedback' = "Wrong!"
  /\ combo' = 0
  /\ isLocked' = TRUE
  /\ lockTimers' = Append(lockTimers, LockDelay)
  /\ outcome' = "wrong"
  /\ UNCHANGED <<queue, score, timeLeft, status, tickIn, staleTimers, ticks>>

\* handleGuess(guess), reached from the buttons and from the key handler
handleGuess(guess, scoreCap) ==
  IF guessIgnored
  THEN /\ outcome' = "ignored"
       /\ UNCHANGED <<gameVars, tickIn, lockTimers, staleTimers, ticks>>
  ELSE IF guessCorrect(guess)
       THEN onCorrect(scoreCap)
       ELSE onWrong

\* lockExpiry with a time penalty: the callback also takes a second off the clock
lockExpiryCostsTime ==
  /\ lockTimers # <<>>
  /\ Head(lockTimers) = 0
  /\ isLocked' = FALSE
  /\ feedback' = "null"
  /\ queue' \in advanceQueue(queue, 0)
  /\ timeLeft' = IF timeLeft > 0 THEN timeLeft - 1 ELSE 0
  /\ lockTimers' = Tail(lockTimers)
  /\ outcome' = "none"
  /\ staleTimers' = IF staleTimers > 0 THEN staleTimers - 1 ELSE 0
  /\ UNCHANGED <<score, combo, status, tickIn, ticks>>

\* the callback of the setTimeout started by a wrong guess
lockExpiry ==
  /\ lockTimers # <<>>
  /\ Head(lockTimers) = 0
  /\ isLocked' = FALSE
  /\ feedback' = "null"
  /\ queue' \in advanceQueue(queue, 0)
  /\ lockTimers' = Tail(lockTimers)
  /\ outcome' = "none"
  /\ staleTimers' = IF staleTimers > 0 THEN staleTimers - 1 ELSE 0
  /\ UNCHANGED <<score, combo, timeLeft, status, tickIn, ticks>>

\* the interval callback or the oldest timeout callback is due in this slice
callbackDue ==
  \/ (status = "playing" /\ tickIn = 0)
  \/ (lockTimers # <<>> /\ Head(lockTimers) = 0)

\* elapse with an interval that never comes due
elapseIntervalStuck ==
  /\ ~callbackDue
  /\ lockTimers' = [k \in 1..Len(lockTimers) |-> lockTimers[k] - 1]
  /\ outcome' = "none"
  /\ UNCHANGED <<gameVars, tickIn, staleTimers, ticks>>

\* one slice of time passes, once the callbacks due in this slice have run
elapse ==
  /\ ~callbackDue
  /\ tickIn' = IF status = "playing" THEN tickIn - 1 ELSE tickIn
  /\ lockTimers' = [k \in 1..Len(lockTimers) |-> lockTimers[k] - 1]
  /\ outcome' = "none"
  /\ UNCHANGED <<gameVars, staleTimers, ticks>>

\* the user clicks "Play Again"
clickPlayAgain ==
  /\ ~callbackDue
  /\ resetGame

\* the user clicks a guess button or presses one of the keys f, d, j, k
submitGuess(scoreCap) ==
  /\ ~callbackDue
  /\ \E guess \in Guesses : handleGuess(guess, scoreCap)

Next ==
  \/ intervalTick
  \/ lockExpiry
  \/ clickPlayAgain
  \/ submitGuess(MaxScore)
  \/ elapse

Spec == Init /\ [][Next]_vars

(* ---------------- a round in which the combo has grown ------------------ *)

\* the score after n correct guesses in a row from the start of a round
RECURSIVE scoreAfter(_)
scoreAfter(n) == IF n = 0 THEN 0 ELSE scoreAfter(n - 1) + getScoreGain(n)

MidScoreCap == scoreAfter(MidCombo) + MidHeadroom

\* the queues left by MidCombo correct guesses: the element at position i was
\* appended when the combo became MidCombo - QueueLength + i
MidQueues ==
  { q \in [1..QueueLength -> generateChallenge(MidCombo)] :
      \A i \in 1..QueueLength : q[i] \in generateChallenge(MidCombo - QueueLength + i) }

\* the state reached by resetGame, RoundLength - MidTimeLeft ticks and then
\* MidCombo correct guesses
InitMid ==
  /\ queue \in MidQueues
  /\ score = scoreAfter(MidCombo)
  /\ combo = MidCombo
  /\ timeLeft = MidTimeLeft
  /\ status = "playing"
  /\ feedback = feedbackText(getScoreGain(MidCombo))
  /\ isLocked = FALSE
  /\ tickIn \in 1..TickPeriod
  /\ lockTimers = <<>>
  /\ outcome = "correct"
  /\ staleTimers = 0
  /\ ticks = RoundLength - MidTimeLeft

\* the rest of that round: the player does not press "Play Again"
NextMid ==
  \/ intervalTick
  \/ lockExpiry
  \/ submitGuess(MidScoreCap)
  \/ elapse

SpecMid == InitMid /\ [][NextMid]_vars

(* ------------- rounds that cross a difficulty threshold ------------------ *)

\* the combos at which getScoreGain, getUnlockedOperators and generateExpression
\* switch to the next tier
ComboThresholds == {10, 20, 30, 40}

\* a streak one correct guess short of a threshold
TierStarts == { t - 1 : t \in ComboThresholds }

\* the longest streak of TierStarts (or none) whose score is at most s
tierBase(s) ==
  LET below == { n \in TierStarts : scoreAfter(n) <= s }
  IN  IF below = {} THEN 0 ELSE CHOOSE n \in below : \A m \in below : m <= n

\* the score after the streak gets one guess longer
TierScoreCap == scoreAfter(tierBase(score) + 1)

\* the longest of these streaks
LastTierStart == CHOOSE n \in TierStarts : \A m \in TierStarts : m <= n

\* queues left by n correct guesses in a row in which the coin of
\* generateChallenge chose a number each time but for the second element, and
\* the numbers drew the same digit; the second element was appended when the
\* combo became n - 3 (in the longest streak the coin chose a number for it
\* as well)
tierQueues(n) ==
  { [i \in 1..QueueLength |-> IF i = 2 THEN ch ELSE nm] :
      nm \in NumberChallenges,
      ch \in IF n = LastTierStart THEN NumberChallenges
                                  ELSE generateChallenge(n - 3) }

\* the time one lock needs to expire before the round ends
TierTimeLeft == LockUnits + TickUnits

\* the state reached by resetGame, RoundLength - TierTimeLeft ticks and then
\* n correct guesses, for a streak n of TierStarts
InitTier ==
  \E n \in TierStarts :
    /\ queue \in tierQueues(n)
    /\ score = scoreAfter(n)
    /\ combo = n
    /\ timeLeft = TierTimeLeft
    /\ status = "playing"
    /\ feedback = feedbackText(getScoreGain(n))
    /\ isLocked = FALSE
    /\ tickIn \in 1..TickPeriod
    /\ lockTimers = <<>>
    /\ outcome = "correct"
    /\ staleTimers = 0
    /\ ticks = RoundLength - TierTimeLeft

\* the rest of that round: the player does not press "Play Again"
NextTier ==
  \/ intervalTick
  \/ lockExpiry
  \/ submitGuess(TierScoreCap)
  \/ elapse

SpecTier == InitTier /\ [][NextTier]_vars

\* the same rounds with the browser's timers running: time passes, and a
\* callback that is due is run
SpecTierFair ==
  /\ SpecTier
  /\ WF_vars(elapse)
  /\ WF_vars(intervalTick)
  /\ WF_vars(lockExpiry)

(* ------------- rounds in which an expression is at the front ------------- *)

\* the largest digit of the expressions these rounds start with
EvalMaxDigit == 4

\* the expressions generateExpression(t) may return with digits up to
\* EvalMaxDigit
evalExpressions(t) ==
  LET operators == getUnlockedOperators(t)
      termCount == IF t >= 40 THEN 3 ELSE 2
  IN  { [type |-> "expression", terms |-> ts, operators |-> ops] :
          ts \in [1..termCount -> 0..EvalMaxDigit],
          ops \in [1..(termCount - 1) ->
                     {operators[k] : k \in 1..Len(operators)}] }

\* queues with such an expression at the front, followed by the four numbers
\* the lock expiries appended, which drew the same digit
evalQueues(t) ==
  { [i \in 1..QueueLength |-> IF i = 1 THEN ex ELSE nm] :
      ex \in evalExpressions(t), nm \in NumberChallenges }

\* the last second of a round
EvalTimeLeft == TickUnits

\* the state reached by resetGame, a streak of t correct guesses whose last
\* one appended the expression, and then four wrong guesses, each with its
\* lock expiry, while the clock ran down to EvalTimeLeft
InitEval ==
  \E t \in ComboThresholds :
    /\ queue \in evalQueues(t)
    /\ score = scoreAfter(t)
    /\ combo = 0
    /\ timeLeft = EvalTimeLeft
    /\ status = "playing"
    /\ feedback = "null"
    /\ isLocked = FALSE
    /\ tickIn \in 1..TickPeriod
    /\ lockTimers = <<>>
    /\ outcome = "none"
    /\ staleTimers = 0
    /\ ticks = RoundLength - EvalTimeLeft

\* the longest streak of ComboThresholds whose score is at most s
evalBase(s) ==
  LET below == { t \in ComboThresholds : scoreAfter(t) <= s }
  IN  CHOOSE t \in below : \A m \in below : m <= t

\* the score after one more correct guess, from combo 0
EvalScoreCap == scoreAfter(evalBase(score)) + getScoreGain(1)

\* the rest of that round: the player does not press "Play Again"
NextEval ==
  \/ intervalTick
  \/ lockExpiry
  \/ submitGuess(EvalScoreCap)
  \/ elapse

SpecEval == InitEval /\ [][NextEval]_vars

(* ---------------- the handlers as functions of the state ----------------- *)

\* the fields a tick or a guess can change
view ==
  [score |-> score, combo |-> combo, timeLeft |-> timeLeft, status |-> status,
   isLocked |-> isLocked]

\* the interval callback with the round ending a second early
tickEffectEarly(s) ==
  IF s.status # "playing" THEN s
  ELSE IF s.timeLeft <= 2
         THEN [s EXCEPT !.timeLeft = 0, !.status = "ended"]
         ELSE [s EXCEPT !.timeLeft = s.timeLeft - 1]

\* what the interval callback makes of these fields; there is no interval
\* outside a round
tickEffect(s) ==
  IF s.status # "playing" THEN s
  ELSE IF s.timeLeft <= 1
         THEN [s EXCEPT !.timeLeft = 0, !.status = "ended"]
         ELSE [s EXCEPT !.timeLeft = s.timeLeft - 1]

\* what handleGuess(guess) makes of these fields when current is the front of
\* the queue
guessEffect(s, current, guess) ==
  IF s.status # "playing" \/ s.isLocked THEN s
  ELSE IF (guess = "even") = isChallengeEven(current)
         THEN [s EXCEPT !.score = s.score + getScoreGain(s.combo + 1),
                        !.combo = s.combo + 1]
         ELSE [s EXCEPT !.combo = 0, !.isLocked = TRUE]

(* ------------------------------ properties ------------------------------ *)

\* C1: in every reachable state the queue holds exactly QueueLength (5)
\* challenges, and every change of the queue other than the refill of a
\* reset drops exactly the front element and appends exactly one.
C1_QueueLength ==
  /\ Len(queue) = QueueLength
  /\ [][ /\ Len(queue') = QueueLength
         /\ (queue' # queue /\ ~(status = "ended" /\ status' = "playing"))
              => SubSeq(queue', 1, QueueLength - 1) = Tail(queue) ]_vars

C1_Witness ==
  /\ outcome = "correct"
  /\ combo = 2
  /\ Len(queue) = QueueLength
  /\ queue[1] # queue[QueueLength]

\* C2: a guess submitted while the status is "ended" or while the lock is set
\* changes neither score, combo, timeLeft, status, isLocked, feedback nor the
\* queue, and schedules no lock expiry.
C2_IgnoredGuessNoOp ==
  [][ \A g \in Guesses :
        ((status # "playing" \/ isLocked) /\ handleGuess(g, MaxScore))
          => (UNCHANGED <<gameVars, lockTimers>> /\ outcome' = "ignored") ]_vars

C2_Witness ==
  /\ outcome = "ignored"
  /\ isLocked
  /\ status = "playing"
  /\ score > 0

\* C3: in a playing, unlocked state with combo c, a guess that matches the
\* parity of the front challenge sets combo to c + 1, adds getScoreGain(c + 1)
\* to the score (from combo 9: combo 10, score + 2), drops the front
\* challenge, appends one generated at combo c + 1 and leaves the lock unset.
C3_CorrectGuess ==
  [][ \A g \in Guesses :
        ( /\ status = "playing"
          /\ ~isLocked
          /\ (g = "even") = isChallengeEven(Head(queue))
          /\ handleGuess(g, MidScoreCap) )
          => /\ combo' = combo + 1
             /\ score' = score + getScoreGain(combo + 1)
             /\ (combo = 9 => (combo' = 10 /\ score' = score + 2))
             /\ Len(queue') = QueueLength
             /\ SubSeq(queue', 1, QueueLength - 1) = Tail(queue)
             /\ queue'[QueueLength] \in generateChallenge(combo + 1)
             /\ isLocked' = FALSE
             /\ outcome' = "correct" ]_vars

C3_Witness ==
  /\ outcome = "correct"
  /\ combo = 10
  /\ score = scoreAfter(10)
  /\ queue[QueueLength].type = "expression"
  /\ ~isLocked

\* C4: in a playing, unlocked state a guess that does not match the parity of
\* the front challenge sets combo to 0, sets the lock and schedules one lock
\* expiry, and leaves score, timeLeft, status and the whole queue unchanged.
C4_WrongGuess ==
  [][ \A g \in Guesses :
        ( /\ status = "playing"
          /\ ~isLocked
          /\ (g = "even") # isChallengeEven(Head(queue))
          /\ handleGuess(g, MaxScore) )
          => /\ combo' = 0
             /\ isLocked' = TRUE
             /\ lockTimers' = Append(lockTimers, LockDelay)
             /\ UNCHANGED <<score, timeLeft, status, queue>>
             /\ outcome' = "wrong" ]_vars

C4_Witness ==
  /\ outcome = "wrong"
  /\ isLocked
  /\ combo = 0
  /\ score = MaxScore
  /\ lockTimers = <<LockDelay>>

\* C5: while the lock is set, every step other than a reset either keeps the
\* lock and the queue, or is the expiry of the timeout started by the wrong
\* guess that set the lock (the only pending one), which clears the lock and
\* the feedback, drops the front and appends a challenge generated at combo 0.
C5_LockWindow ==
  [][ (isLocked /\ ~(status = "ended" /\ status' = "playing"))
        => \/ (isLocked' /\ queue' = queue)
           \/ /\ Len(lockTimers) = 1
              /\ lockTimers' = <<>>
              /\ isLocked' = FALSE
              /\ feedback' = "null"
              /\ SubSeq(queue', 1, QueueLength - 1) = Tail(queue)
              /\ queue'[QueueLength] \in generateChallenge(0) ]_vars

\* C6: a timeout started before a reset never runs in the round begun by that
\* reset: whenever a lock expiry runs, no pending timeout is older than the
\* last reset.
C6_ResetCancelsExpiry ==
  [][ Len(lockTimers') < Len(lockTimers) => staleTimers = 0 ]_vars

\* C7: while the status stays "ended", score, combo, timeLeft and queue keep
\* their values under every event.
C7_FrozenAfterEnd ==
  [][ (status = "ended" /\ status' = "ended")
        => UNCHANGED <<score, combo, timeLeft, queue>> ]_vars

\* C8: timeLeft changes, other than by a reset, only by a tick, which runs only
\* while playing and decrements it by exactly 1; the status becomes "ended"
\* exactly on the tick that brings timeLeft to 0, which is the RoundLength-th
\* (60th) tick of the round; timeLeft never goes below 0.
C8_Tick ==
  [][ /\ ( /\ (ticks' = ticks + 1 \/ timeLeft' # timeLeft)
           /\ ~(status = "ended" /\ status' = "playing") )
           => /\ status = "playing"
              /\ ticks' = ticks + 1
              /\ timeLeft' = timeLeft - 1
              /\ timeLeft' >= 0
              /\ (status' = "ended") = (timeLeft' = 0)
              /\ (status' = "ended") = (ticks' = RoundLength)
      /\ (status = "playing" /\ status' = "ended") => ticks' = ticks + 1 ]_vars

C8_Witness ==
  /\ status = "ended"
  /\ ticks = RoundLength
  /\ timeLeft = 0
  /\ score = MaxScore

\* C9: a reset yields status "playing", score 0, combo 0, timeLeft 60, the lock
\* unset, the feedback cleared and a queue of 5 challenges generated at
\* combo 0, all of them numbers.
C9_Reset ==
  [][ (status = "ended" /\ status' = "playing")
        => /\ score' = 0
           /\ combo' = 0
           /\ timeLeft' = RoundLength
           /\ isLocked' = FALSE
           /\ feedback' = "null"
           /\ Len(queue') = QueueLength
           /\ \A i \in 1..QueueLength :
                queue'[i] \in generateChallenge(0) /\ queue'[i].type = "number" ]_vars

C9_Witness ==
  /\ status = "playing"
  /\ ticks = 0
  /\ outcome = "none"
  /\ staleTimers > 0
  /\ ~isLocked
  /\ score = 0
  /\ timeLeft = RoundLength

\* C10: in every reachable state the lock is set only while playing.
C10_LockedImpliesPlaying == isLocked => status = "playing"

\* C11: within a round score and combo are changed only by a guess and timeLeft
\* only by a tick: a tick leaves score, combo, isLocked and the queue as they
\* were, a guess leaves timeLeft and status as they were, and a lock expiry
\* leaves score, combo, timeLeft and status as they were.
C11_FrameEffects ==
  [][ /\ (ticks' = ticks + 1) => UNCHANGED <<score, combo, isLocked, queue>>
      /\ (outcome' # "none") => UNCHANGED <<timeLeft, status>>
      /\ (Len(lockTimers') < Len(lockTimers))
            => UNCHANGED <<score, combo, timeLeft, status>>
      /\ (score' # score \/ combo' # combo) => outcome' \in {"correct", "wrong"}
      /\ (timeLeft' # timeLeft) => ticks' = ticks + 1 ]_vars

\* a lock has expired during the round that crossed the first threshold, and
\* the clock has run since the streak
C11_Witness ==
  /\ status = "playing"
  /\ feedback = "null"
  /\ ~isLocked
  /\ combo = 0
  /\ score \in { scoreAfter(t) : t \in ComboThresholds }
  /\ timeLeft < TierTimeLeft

\* C12 as stated: in every state of a round, for either guess, a tick followed
\* by the guess leaves the same score, combo, timeLeft, status and isLocked as
\* the guess followed by the tick.
C12_TickGuessCommute ==
  status = "playing" =>
    \A g \in Guesses :
      guessEffect(tickEffect(view), Head(queue), g)
        = tickEffect(guessEffect(view, Head(queue), g))

\* C12 amended: tick and guess commute in every state of a round but the
\* unlocked ones of its last second (timeLeft = 1), where the tick ends the
\* round and the guess that follows it is ignored.
C12_CommuteBeforeLastSecond ==
  (status = "playing" /\ (timeLeft >= 2 \/ isLocked)) =>
    \A g \in Guesses :
      guessEffect(tickEffect(view), Head(queue), g)
        = tickEffect(guessEffect(view, Head(queue), g))

\* an unlocked state two seconds before the end, after a correct guess, where
\* both the tick and either guess change the fields
C12_Witness ==
  /\ status = "playing"
  /\ ~isLocked
  /\ timeLeft = 2
  /\ combo > 0
  /\ \A g \in Guesses :
       /\ guessEffect(view, Head(queue), g) # view
       /\ tickEffect(guessEffect(view, Head(queue), g))
            # guessEffect(view, Head(queue), g)

\* the handlers of the model change the fields as tickEffect and guessEffect do
EffectsAgree ==
  [][ /\ (ticks' = ticks + 1) => view' = tickEffect(view)
      /\ \A g \in Guesses :
           handleGuess(g, MaxScore) => view' = guessEffect(view, Head(queue), g)
    ]_vars

\* the quotient rounded down, for a divisor b > 0
floorQuotient(a, b) ==
  LET m == IF a >= 0 THEN a ELSE 0 - a
  IN  CHOOSE q \in (0 - m)..m : q * b <= a /\ a < (q + 1) * b

\* the remainder of the language's %: its sign is the sign of a, for b > 0
signedRemainder(a, b) ==
  LET m == IF a >= 0 THEN a ELSE 0 - a
  IN  CHOOSE r \in (1 - b)..(b - 1) :
        /\ \E k \in (0 - m)..m : a = k * b + r
        /\ (a >= 0 => r >= 0)
        /\ (a <= 0 => r <= 0)

\* one operator applied to the running result and the next term
stepValue(op, a, b) ==
  CASE op = "+" -> a + b
    [] op = "-" -> a - b
    [] op = "*" -> a * b
    [] op = "/" -> IF b = 0 THEN 0 ELSE floorQuotient(a, b)
    [] op = "%" -> IF b = 0 THEN 0 ELSE signedRemainder(a, b)

\* the operators applied from the left, without precedence, for two and for
\* three terms
leftToRightValue(ex) ==
  LET first == stepValue(ex.operators[1], ex.terms[1], ex.terms[2])
  IN  IF Len(ex.terms) = 2 THEN first
      ELSE stepValue(ex.operators[2], first, ex.terms[3])

challengeValue(ch) ==
  IF ch.type = "number" THEN ch.value ELSE leftToRightValue(ch)

divisibleByTwo(v) ==
  LET m == IF v >= 0 THEN v ELSE 0 - v
  IN  \E k \in 0..m : m = 2 * k

expressionOf(ts, ops) == [type |-> "expression", terms |-> ts, operators |-> ops]

\* C13: evaluateExpression applies the operators from the left, starting from
\* terms[0], without precedence (2+3*4 is 20): + - * are integer arithmetic, / is
\* the quotient rounded down, % is the language's remainder, and / or % by 0
\* gives 0 for that step (7/0 is 0, 5%0 is 0). A challenge is even iff its value,
\* negative ones included, is divisible by 2; a guess is scored as correct iff
\* it names that parity.
C13_EvaluateLeftToRight ==
  /\ [](/\ evaluateExpression(expressionOf(<<2, 3, 4>>, <<"+", "*">>)) = 20
        /\ evaluateExpression(expressionOf(<<7, 0>>, <<"/">>)) = 0
        /\ evaluateExpression(expressionOf(<<5, 0>>, <<"%">>)) = 0
        /\ \A i \in 1..Len(queue) :
             /\ queue[i].type = "expression"
                  => evaluateExpression(queue[i]) = leftToRightValue(queue[i])
             /\ isChallengeEven(queue[i]) <=> divisibleByTwo(challengeValue(queue[i])))
  /\ [][ \A g \in Guesses :
           (handleGuess(g, EvalScoreCap) /\ ~guessIgnored)
             => ((outcome' = "correct")
                   <=> ((g = "even") <=> divisibleByTwo(challengeValue(Head(queue)))))
       ]_vars

\* a guess on an expression with a negative odd value was scored as wrong, so
\* the player had said "even"
C13_Witness ==
  /\ outcome = "wrong"
  /\ Head(queue).type = "expression"
  /\ Len(Head(queue).terms) = 3
  /\ evaluateExpression(Head(queue)) < 0
  /\ ~isChallengeEven(Head(queue))

gainTable(c) ==
  CASE c \in 0..9 -> 1
    [] c \in 10..19 -> 2
    [] c \in 20..29 -> 3
    [] c \in 30..39 -> 4
    [] OTHER -> 5

operatorTable(c) ==
  CASE c \in 0..9 -> {}
    [] c \in 10..19 -> {"+", "-"}
    [] c \in 20..29 -> {"+", "-", "*"}
    [] OTHER -> {"+", "-", "*", "/", "%"}

unlockedSet(c) ==
  { getUnlockedOperators(c)[k] : k \in 1..Len(getUnlockedOperators(c)) }

\* C14: for every combo up to the one the next guess would reach,
\* getScoreGain is 1 below 10, 2 for 10..19, 3 for 20..29, 4 for 30..39 and 5
\* from 40 on; getUnlockedOperators is empty below 10, + - for 10..19,
\* + - * for 20..29 and all five operators from 30 on; from 10 on the set is
\* not empty and it never shrinks as the combo grows; and a correct guess adds
\* the gain of the combo it reaches.
C14_TierTables ==
  /\ [](\A c \in 0..(combo + 1) :
          /\ getScoreGain(c) = gainTable(c)
          /\ unlockedSet(c) = operatorTable(c)
          /\ (c >= 10 => unlockedSet(c) # {})
          /\ unlockedSet(c) \subseteq unlockedSet(c + 1))
  /\ [][ outcome' = "correct"
           => (combo' = combo + 1 => score' = score + gainTable(combo')) ]_vars

\* the guess that made the combo 40 was scored with the highest gain
C14_Witness ==
  /\ combo = 40
  /\ outcome = "correct"
  /\ score = scoreAfter(39) + 5
  /\ feedback = "+5"

isDigit(d) == d \in 0..9

wellFormed(ch, c) ==
  IF ch.type = "number" THEN isDigit(ch.value)
  ELSE /\ c >= 10
       /\ ch.type = "expression"
       /\ Len(ch.terms) = (IF c >= 40 THEN 3 ELSE 2)
       /\ \A k \in 1..Len(ch.terms) : isDigit(ch.terms[k])
       /\ Len(ch.operators) = Len(ch.terms) - 1
       /\ \A k \in 1..Len(ch.operators) : ch.operators[k] \in unlockedSet(c)

\* C15: every challenge generateChallenge(c) appends, for every outcome of its
\* random draws, is well formed: below 10 a number with a digit as value; from
\* 10 on a number or an expression whose terms are digits, 3 of them from 40 on
\* and 2 below, with one operator fewer than terms, all of them unlocked at c.
\* A correct guess calls it with the combo it reaches, a lock expiry with 0.
C15_GeneratedWellFormed ==
  [][ /\ outcome' = "correct" => wellFormed(queue'[QueueLength], combo')
      /\ Len(lockTimers') < Len(lockTimers) => wellFormed(queue'[QueueLength], 0)
    ]_vars

\* the guess that made the combo 40 appended an expression of three terms
C15_Witness ==
  /\ combo = 40
  /\ outcome = "correct"
  /\ queue[QueueLength].type = "expression"
  /\ Len(queue[QueueLength].terms) = 3
  /\ Len(queue[QueueLength].operators) = 2

\* C16: every round terminates: with time passing and the due callbacks run,
\* and no reset, a round that is being played is eventually ended, whatever
\* guesses and lock expiries happen in between.
C16_RoundTerminates == (status = "playing") ~> (status = "ended")

\* the last tick has ended a round in which a guess was scored and a lock set
\* by a wrong guess has not expired yet
C16_Witness ==
  /\ status = "ended"
  /\ timeLeft = 0
  /\ ticks = RoundLength
  /\ score \in { scoreAfter(t) : t \in ComboThresholds }
  /\ isLocked
  /\ lockTimers # <<>>

\* C17: in every state score >= combo; a correct guess raises combo by 1 and
\* score by at least 1, a wrong guess lowers combo to 0 and leaves score, a
\* reset zeroes both, and within a round score never decreases.
C17_ScoreAtLeastCombo ==
  /\ [](score >= combo)
  /\ [][ /\ (outcome' = "correct" /\ combo' # combo)
              => (combo' = combo + 1 /\ score' >= score + 1)
         /\ outcome' = "wrong" => (combo' = 0 /\ combo' <= combo /\ score' = score)
         /\ (status = "ended" /\ status' = "playing") => (score' = 0 /\ combo' = 0)
         /\ ~(status = "ended" /\ status' = "playing") => score' >= score
       ]_vars

\* a streak of one after an earlier streak was broken: score is above combo
C17_Witness ==
  /\ status = "playing"
  /\ outcome = "correct"
  /\ combo = 1
  /\ score = MaxScore

\* C18: in every state isLocked implies combo = 0: the lock is set together
\* with combo := 0, and guesses are ignored while it is set.
C18_LockedImpliesNoCombo == isLocked => combo = 0

\* a lock set by a wrong guess that broke a streak, with a later guess ignored
C18_Witness ==
  /\ isLocked
  /\ status = "playing"
  /\ combo = 0
  /\ score = MaxScore
  /\ outcome = "ignored"

\* C19: in every state 0 <= timeLeft <= 60; a round that is being played has
\* timeLeft >= 1, and timeLeft = 0 only when the round has ended.
C19_TimeLeftRange ==
  /\ timeLeft \in 0..RoundLength
  /\ status = "playing" => timeLeft >= 1
  /\ timeLeft = 0 => status = "ended"

\* the sixtieth tick of a round has taken timeLeft from 1 to 0 and ended it
C19_Witness ==
  /\ status = "ended"
  /\ timeLeft = 0
  /\ ticks = RoundLength
  /\ score = 1
  /\ ~isLocked

usesOperator(ch, ops) ==
  /\ ch.type = "expression"
  /\ \E k \in 1..Len(ch.operators) : ch.operators[k] \in ops

\* the kind of challenge that the threshold t unlocks
unlockedAt(t, ch) ==
  CASE t = 10 -> ch.type = "expression"
    [] t = 20 -> usesOperator(ch, {"*"})
    [] t = 30 -> usesOperator(ch, {"/", "%"})
    [] t = 40 -> ch.type = "expression" /\ Len(ch.terms) = 3

queued(t, q) == \E i \in 1..Len(q) : unlockedAt(t, q[i])

\* C20: the difficulty of the queue follows the highest combo of the round,
\* not the current one: an expression (a multiply, a divide or modulo, a third
\* term) enters a queue that had none only in a step that leaves the combo at
\* 10 (20, 30, 40) or more, so it is queued only after the combo has reached
\* that threshold in the round, when the score is at least that of a streak
\* of that length; once queued it stays until it has been the front, whatever
\* happens to the combo.
C20_DifficultyFollowsPeakCombo ==
  /\ [](\A t \in ComboThresholds : queued(t, queue) => score >= scoreAfter(t))
  /\ [][ \A t \in ComboThresholds :
           /\ (~queued(t, queue) /\ queued(t, queue')) => combo' >= t
           /\ (queued(t, Tail(queue)) /\ queue' # queue) => queued(t, queue')
       ]_vars

\* after a wrong guess and its lock expiry an expression is the front while
\* the combo is 0
C20_Witness ==
  /\ status = "playing"
  /\ ~isLocked
  /\ outcome = "none"
  /\ combo = 0
  /\ Head(queue).type = "expression"
  /\ usesOperator(Head(queue), {"*"})

====
